---- MODULE Spec2Model ----
(***************************************************************************)
(* A model of src/agent.py: the payload codec (_ok_payload, _err_payload,  *)
(* _parse_args, _parse_xy, _parse_text), the history pruner                *)
(* (_prune_old_screenshots) and the control loop run_agent.                *)
(*                                                                         *)
(* Representation.                                                         *)
(*  - A Python str that the program builds or inspects is a sequence of    *)
(*    tokens (short strings), so that f-string formatting is sequence      *)
(*    concatenation; "" is << >>.                                          *)
(*  - A str produced by json.dumps is kept as the JSON document it encodes *)
(*    (kind "json"); json.loads of it gives that document back, and        *)
(*    json.loads of any other content raises.                              *)
(*  - The raw `arguments` of a tool call are concrete JSON texts; ArgJSON  *)
(*    is what json.loads returns for each of them.                         *)
(*  - The text of type_text is a sequence of Unicode code points.          *)
(*  - A float is [nan, v] with v an integer (the inputs are integral).     *)
(***************************************************************************)
EXTENDS Integers, Sequences, FiniteSets, TLC

VARIABLES
    messages,      \* run_agent: the conversation (list of turns)
    dump_idx,      \* run_agent: index of the next screenshot file
    last_content,  \* run_agent: the candidate answer
    step,          \* loop iterations started = requests issued
    pc,            \* "loop" | "done" | "failed" | "prune_in" | "prune_out" |
                   \* "prune_again"
    returned,      \* the value run_agent returned (when pc = "done")
    files,         \* history: files written, in order: [step, name]
    os_calls,      \* history: winapi primitives invoked, in order
    sent,          \* history: payload["messages"] of the latest request / pruner input
    max_steps,     \* cfg["max_steps"]
    keep_last,     \* cfg["keep_last_screenshots"]
    dump_start     \* cfg["dump_start"]

vars == <<messages, dump_idx, last_content, step, pc, returned, files,
          os_calls, sent, max_steps, keep_last, dump_start>>

(* --------------------------- bounds ----------------------------------- *)
MaxSteps == 3
MaxKeep == 1
MaxTurns == 4

(* --------------------------- contents --------------------------------- *)
\* A Python str as a token sequence.
Tok(s) == IF s = "" THEN << >> ELSE <<s>>

NoDoc == [isdict |-> FALSE, keys |-> {}, ok |-> FALSE, etype |-> "",
          emsg |-> << >>, file |-> << >>, screen_w |-> 0, screen_h |-> 0]

NoneC == [kind |-> "none", text |-> << >>, doc |-> NoDoc, parts |-> << >>]

TextC(t) == [kind |-> "text", text |-> t, doc |-> NoDoc, parts |-> << >>]

JsonC(d) == [kind |-> "json", text |-> << >>, doc |-> d, parts |-> << >>]

ListC(ps) == [kind |-> "list", text |-> << >>, doc |-> NoDoc, parts |-> ps]

IsStr(c) == c.kind \in {"text", "json"}

TextPart(t) == [type |-> "text", text |-> t, url |-> 0]

ImagePart(u) == [type |-> "image_url", text |-> << >>, url |-> u]

(* --------------------------- turns ------------------------------------ *)
NoId == <<0, 0>>

Turn(role, content) ==
    [role |-> role, content |-> content, tool_calls |-> << >>,
     tool_call_id |-> NoId, name |-> ""]

AssistantTurn(content, calls) ==
    [role |-> "assistant", content |-> content, tool_calls |-> calls,
     tool_call_id |-> NoId, name |-> ""]

ToolTurn(id, name, content) ==
    [role |-> "tool", content |-> content, tool_calls |-> << >>,
     tool_call_id |-> id, name |-> name]

(* --------------------------- payload codec ---------------------------- *)
_ok_payload ==
    JsonC([NoDoc EXCEPT !.isdict = TRUE, !.keys = {"ok"}, !.ok = TRUE])

_ok_payload_extra(file, w, h) ==
    JsonC([NoDoc EXCEPT !.isdict = TRUE,
                        !.keys = {"ok", "file", "screen_w", "screen_h"},
                        !.ok = TRUE, !.file = file,
                        !.screen_w = w, !.screen_h = h])

_err_payload(error_type, message) ==
    JsonC([NoDoc EXCEPT !.isdict = TRUE, !.keys = {"ok", "error"},
                        !.ok = FALSE, !.etype = error_type, !.emsg = message])

IsErr(c, ty) ==
    /\ c.kind = "json"
    /\ c.doc.isdict
    /\ "error" \in c.doc.keys
    /\ ~c.doc.ok
    /\ c.doc.etype = ty

(* --------------------------- tool-call arguments ---------------------- *)
\* tc["function"].get("arguments"): absent (None), a str, or another JSON value.
ArgNone == [ty |-> "none", s |-> ""]

ArgStr(s) == [ty |-> "str", s |-> s]

ArgOther == [ty |-> "other", s |-> ""]

\* JSON values met under the keys x, y and text.
JInt(n) == [t |-> "int", n |-> n, cp |-> << >>]

JBig == [t |-> "big", n |-> 0, cp |-> << >>]

JNaN == [t |-> "nan", n |-> 0, cp |-> << >>]

JNull == [t |-> "null", n |-> 0, cp |-> << >>]

JBool(b) == [t |-> "bool", n |-> IF b THEN 1 ELSE 0, cp |-> << >>]

JString(cp) == [t |-> "str", n |-> 0, cp |-> cp]

\* What json.loads makes of an argument text: a decode error (with e.msg),
\* a value that is no dict, or a dict over the keys x, y, text.
NoArgs == [exc |-> "", msg |-> "", isdict |-> FALSE, keys |-> {},
           x |-> JNull, y |-> JNull, text |-> JNull]

Dict(keys, x, y, text) ==
    [NoArgs EXCEPT !.isdict = TRUE, !.keys = keys, !.x = x, !.y = y,
                   !.text = text]

XY(x, y) == Dict({"x", "y"}, x, y, JNull)

\* {"x":10^309,"y":1}: an integer literal beyond the range of a float.
BigXText ==
    "{\"x\":1000000000000000000000000000000000000000000000000000000000000000000000000000000000000000000000000000000000000000000000000000000000000000000000000000000000000000000000000000000000000000000000000000000000000000000000000000000000000000000000000000000000000000000000000000000000000000000000000000000000000000000000,\"y\":1}"

ArgJSON(s) ==
    CASE s = "not json" ->
           [NoArgs EXCEPT !.exc = "JSONDecodeError", !.msg = "Expecting value"]
      [] s = "[1,2]" -> NoArgs
      [] s = "{}" -> Dict({}, JNull, JNull, JNull)
      [] s = "{\"x\":500,\"y\":500}" -> XY(JInt(500), JInt(500))
      [] s = "{\"x\":-5,\"y\":1500}" -> XY(JInt(-5), JInt(1500))
      [] s = "{\"x\":1000,\"y\":0}" -> XY(JInt(1000), JInt(0))
      [] s = "{\"x\":5}" -> Dict({"x"}, JInt(5), JNull, JNull)
      [] s = "{\"x\":\"abc\",\"y\":1}" -> XY(JString(<<97, 98, 99>>), JInt(1))
      [] s = "{\"x\":\"7\",\"y\":true}" -> XY(JString(<<55>>), JBool(TRUE))
      [] s = "{\"x\":1,\"y\":null}" -> XY(JInt(1), JNull)
      [] s = "{\"x\":NaN,\"y\":1}" -> XY(JNaN, JInt(1))
      [] s = BigXText -> XY(JBig, JInt(1))
      [] s = "{\"text\":\"h\\u00e9llo\"}" ->
           Dict({"text"}, JNull, JNull, JString(<<104, 233, 108, 108, 111>>))
      [] s = "{\"text\":\"\\u00e9\\u4e2d\"}" ->
           Dict({"text"}, JNull, JNull, JString(<<233, 20013>>))
      [] s = "{\"text\":\"hi\"}" ->
           Dict({"text"}, JNull, JNull, JString(<<104, 105>>))
      [] s = "{\"text\":null}" -> Dict({"text"}, JNull, JNull, JNull)
      [] s = "{\"text\":5}" -> Dict({"text"}, JNull, JNull, JInt(5))
      [] s = "{\"text\":true}" -> Dict({"text"}, JNull, JNull, JBool(TRUE))
      [] s = "{\"text\":\"\"}" -> Dict({"text"}, JNull, JNull, JString(<< >>))
      [] s = "{\"text\":\"a\\u00e9b\\u4e2dc\"}" ->
           Dict({"text"}, JNull, JNull, JString(<<97, 233, 98, 20013, 99>>))
      [] s = "{\"text\":-12}" -> Dict({"text"}, JNull, JNull, JInt(-12))
      [] s = "{\"text\":\"~\\u007f\\u0080\"}" ->
           Dict({"text"}, JNull, JNull, JString(<<126, 127, 128>>))
      [] s = "{\"x\":1001,\"y\":-1}" -> XY(JInt(1001), JInt(-1))

\* _parse_args handing the empty string to json.loads.
ParseArgsStrict(arg_str) ==
    LET a == IF arg_str.ty = "none" THEN ArgStr("{}") ELSE arg_str
        val == IF a.s # "" THEN ArgJSON(a.s)
               ELSE [NoArgs EXCEPT !.exc = "JSONDecodeError",
                                   !.msg = "Expecting value"]
    IN  IF a.ty # "str"
        THEN [val |-> NoArgs,
              err |-> _err_payload("invalid_arguments",
                                   <<"arguments must be a JSON string">>)]
        ELSE IF val.exc = "JSONDecodeError"
        THEN [val |-> NoArgs,
              err |-> _err_payload("invalid_arguments",
                                   <<"JSON decode error: ", val.msg>>)]
        ELSE IF ~val.isdict
        THEN [val |-> NoArgs,
              err |-> _err_payload("invalid_arguments",
                                   <<"arguments must decode to an object">>)]
        ELSE [val |-> val, err |-> NoneC]

\* _parse_args: (val, err); err is NoneC for Python's None.
_parse_args(arg_str) ==
    LET a == IF arg_str.ty = "none" THEN ArgStr("{}") ELSE arg_str
        val == IF a.s # "" THEN ArgJSON(a.s) ELSE Dict({}, JNull, JNull, JNull)
    IN  IF a.ty # "str"
        THEN [val |-> NoArgs,
              err |-> _err_payload("invalid_arguments",
                                   <<"arguments must be a JSON string">>)]
        ELSE IF val.exc = "JSONDecodeError"
        THEN [val |-> NoArgs,
              err |-> _err_payload("invalid_arguments",
                                   <<"JSON decode error: ", val.msg>>)]
        ELSE IF ~val.isdict
        THEN [val |-> NoArgs,
              err |-> _err_payload("invalid_arguments",
                                   <<"arguments must decode to an object">>)]
        ELSE [val |-> val, err |-> NoneC]

\* Python's float(v): the float, or the exception it raises.
NoFloat == [nan |-> FALSE, v |-> 0]

RECURSIVE DecimalValue(_)
DecimalValue(cp) ==
    IF cp = << >> THEN 0
    ELSE 10 * DecimalValue(SubSeq(cp, 1, Len(cp) - 1)) + (cp[Len(cp)] - 48)

IsDecimal(cp) == cp # << >> /\ \A i \in 1..Len(cp) : cp[i] \in 48..57

PyFloat(v) ==
    CASE v.t = "int" -> [exc |-> "", f |-> [nan |-> FALSE, v |-> v.n]]
      [] v.t = "bool" -> [exc |-> "", f |-> [nan |-> FALSE, v |-> v.n]]
      [] v.t = "nan" -> [exc |-> "", f |-> [nan |-> TRUE, v |-> 0]]
      [] v.t = "big" -> [exc |-> "OverflowError", f |-> NoFloat]
      [] v.t = "null" -> [exc |-> "TypeError", f |-> NoFloat]
      [] v.t = "str" ->
           IF IsDecimal(v.cp)
           THEN [exc |-> "", f |-> [nan |-> FALSE, v |-> DecimalValue(v.cp)]]
           ELSE [exc |-> "ValueError", f |-> NoFloat]

\* The if/elif of lines 113-120; every comparison with a NaN is false.
Clamp(f) ==
    IF ~f.nan /\ f.v < 0 THEN [nan |-> FALSE, v |-> 0]
    ELSE IF ~f.nan /\ f.v > 1000 THEN [nan |-> FALSE, v |-> 1000]
    ELSE f

\* _parse_xy: (x, y, err), or an exception that line 111 does not catch.
_parse_xy(arg_str) ==
    LET r == _parse_args(arg_str)
        fx == PyFloat(r.val.x)
        fy == PyFloat(r.val.y)
        exc == IF fx.exc # "" THEN fx.exc ELSE fy.exc
    IN  IF r.err # NoneC
        THEN [raised |-> "", x |-> NoFloat, y |-> NoFloat, err |-> r.err]
        ELSE IF "x" \notin r.val.keys \/ "y" \notin r.val.keys
        THEN [raised |-> "", x |-> NoFloat, y |-> NoFloat,
              err |-> _err_payload("invalid_arguments", <<"missing x or y">>)]
        ELSE IF exc \in {"TypeError", "ValueError"}
        THEN [raised |-> "", x |-> NoFloat, y |-> NoFloat,
              err |-> _err_payload("invalid_arguments",
                                   <<"x and y must be numbers">>)]
        ELSE IF exc # ""
        THEN [raised |-> exc, x |-> NoFloat, y |-> NoFloat, err |-> NoneC]
        ELSE [raised |-> "", x |-> Clamp(fx.f), y |-> Clamp(fy.f),
              err |-> NoneC]

\* Python's str(v), as code points.
RECURSIVE DecimalDigits(_)
DecimalDigits(n) ==
    IF n < 10 THEN <<48 + n>>
    ELSE DecimalDigits(n \div 10) \o <<48 + (n % 10)>>

PyStr(v) ==
    CASE v.t = "str" -> v.cp
      [] v.t = "int" ->
           IF v.n < 0 THEN <<45>> \o DecimalDigits(-v.n) ELSE DecimalDigits(v.n)
      [] v.t = "bool" ->
           IF v.n = 1 THEN <<84, 114, 117, 101>> ELSE <<70, 97, 108, 115, 101>>
      [] v.t = "nan" -> <<110, 97, 110>>
      [] v.t = "null" -> <<78, 111, 110, 101>>
      [] v.t = "big" -> [i \in 1..310 |-> IF i = 1 THEN 49 ELSE 48]

\* t.encode("ascii", "replace").decode("ascii")
AsciiReplace(cp) == [i \in 1..Len(cp) |-> IF cp[i] < 128 THEN cp[i] ELSE 63]

\* t.encode("ascii", "ignore").decode("ascii")
AsciiIgnore(cp) ==
    LET IsAscii(c) == c < 128 IN SelectSeq(cp, IsAscii)

\* _parse_text: (text, err).
_parse_text(arg_str) ==
    LET r == _parse_args(arg_str)
        t == IF r.val.text.t = "null" THEN << >> ELSE PyStr(r.val.text)
    IN  IF r.err # NoneC THEN [text |-> << >>, err |-> r.err]
        ELSE IF "text" \notin r.val.keys THEN [text |-> << >>, err |-> NoneC]
        ELSE [text |-> AsciiIgnore(t), err |-> NoneC]

(* --------------------------- history pruner --------------------------- *)
\* Python's s[:stop]: a negative stop counts from the end, and -0 is 0.
PySliceTo(s, stop) ==
    LET n == Len(s)
        e == IF stop < 0 THEN (IF n + stop < 0 THEN 0 ELSE n + stop)
             ELSE (IF stop > n THEN n ELSE stop)
    IN  SubSeq(s, 1, e)

\* Lines 152-159: a user turn whose content is a list holding an image part.
HasImage(m) ==
    /\ m.role = "user"
    /\ m.content.kind = "list"
    /\ \E k \in 1..Len(m.content.parts) : m.content.parts[k].type = "image_url"

ImageIdxs(msgs) ==
    LET IsImg(i) == HasImage(msgs[i])
    IN  SelectSeq([i \in 1..Len(msgs) |-> i], IsImg)

\* Lines 165-172: json.loads of the preceding tool turn's content; any
\* exception (a content that is no JSON text) leaves the hint empty.
FileHint(prev) ==
    IF /\ prev.role = "tool"
       /\ prev.content.kind = "json"
       /\ prev.content.doc.isdict
       /\ "ok" \in prev.content.doc.keys /\ prev.content.doc.ok
       /\ "file" \in prev.content.doc.keys /\ prev.content.doc.file # << >>
    THEN <<" (omitted; file=">> \o prev.content.doc.file \o <<")">>
    ELSE << >>

\* The stub without the file of the capture.
StubWithoutFile(msgs, i) == TextC(<<"captured image data">>)

Stub(msgs, i) ==
    TextC(<<"captured image data">> \o
          (IF i > 1 THEN FileHint(msgs[i - 1]) ELSE << >>))

\* The pruner rewriting one turn a call: the oldest image turn only.
PruneOldestOnly(msgs, keep) ==
    LET idxs == ImageIdxs(msgs)
    IN  IF Len(idxs) <= keep THEN msgs
        ELSE [i \in 1..Len(msgs) |->
                IF i = idxs[1] THEN [msgs[i] EXCEPT !.content = Stub(msgs, i)]
                ELSE msgs[i]]

\* The pruner removing the old image turns from the list.
PruneRemoves(msgs, keep) ==
    LET idxs == ImageIdxs(msgs)
        old == PySliceTo(idxs, -keep)
        drop == {old[k] : k \in 1..Len(old)}
        Kept(i) == i \notin drop
        kept == SelectSeq([i \in 1..Len(msgs) |-> i], Kept)
    IN  IF Len(idxs) <= keep THEN msgs
        ELSE [k \in 1..Len(kept) |-> msgs[kept[k]]]

\* Lines 161-175.  The turns rewritten are user turns and the turns read for
\* the hint are tool turns, so the loop's writes do not feed its reads.
_prune_old_screenshots(msgs, keep) ==
    LET idxs == ImageIdxs(msgs)
        old == PySliceTo(idxs, -keep)
        drop == {old[k] : k \in 1..Len(old)}
    IN  IF Len(idxs) <= keep THEN msgs
        ELSE [i \in 1..Len(msgs) |->
                IF i \in drop THEN [msgs[i] EXCEPT !.content = Stub(msgs, i)]
                ELSE msgs[i]]

(* --------------------------- file names ------------------------------- *)
Digit(d) == <<"0", "1", "2", "3", "4", "5", "6", "7", "8", "9">>[d + 1]

RECURSIVE Digits(_)
Digits(n) ==
    IF n < 10 THEN <<Digit(n)>> ELSE Digits(n \div 10) \o <<Digit(n % 10)>>

RECURSIVE ZeroPad(_, _)
ZeroPad(ds, width) ==
    IF Len(ds) >= width THEN ds ELSE ZeroPad(<<"0">> \o ds, width)

\* f"{dump_idx:04d}": the sign counts towards the width of 4.
Fmt04d(n) ==
    IF n < 0 THEN <<"-">> \o ZeroPad(Digits(-n), 3) ELSE ZeroPad(Digits(n), 4)

\* os.path.join(dump_dir, f"{dump_prefix}{dump_idx:04d}.png")
FileName(idx) == <<"dumps", "/", "shot_">> \o Fmt04d(idx) \o <<".png">>

(* --------------------------- the endpoint ----------------------------- *)
Call(name, arguments) == [name |-> name, arguments |-> arguments]

\* Single calls: each tool with arguments it accepts and arguments it rejects
\* (click_mouse with arguments it accepts, and an unknown tool with a name,
\* come first in the responses with several calls below).
FirstCalls ==
    { Call("take_screenshot", ArgNone),
      Call("take_screenshot", ArgStr("not json")),
      Call("move_mouse", ArgStr("{\"x\":500,\"y\":500}")),
      Call("move_mouse", ArgStr("{\"x\":-5,\"y\":1500}")),
      Call("move_mouse", ArgNone),
      Call("move_mouse", ArgStr("{\"x\":\"abc\",\"y\":1}")),
      Call("move_mouse", ArgStr("{\"x\":NaN,\"y\":1}")),
      Call("move_mouse", ArgStr(BigXText)),
      Call("click_mouse", ArgStr("[1,2]")),
      Call("type_text", ArgStr("{\"text\":\"h\\u00e9llo\"}")),
      Call("type_text", ArgOther),
      Call("scroll_down", ArgStr("{}")),
      Call("scroll_down", ArgStr("not json")),
      Call("", ArgNone) }

\* choices[0].message of a response: content (None or a str) and tool calls.
Message(content, calls) == [content |-> content, calls |-> calls]

\* What the endpoint may answer: one call without content, several calls
\* with content, or no call at all.
Responses ==
    { Message(NoneC, <<c>>) : c \in FirstCalls }
    \cup
    { Message(TextC(<< >>),
              <<Call("take_screenshot", ArgNone),
                Call("move_mouse", ArgStr("{\"x\":500,\"y\":500}"))>>),
      Message(TextC(<<"working">>),
              <<Call("click_mouse", ArgStr("")),
                Call("take_screenshot", ArgNone),
                Call("move_mouse", ArgStr("{\"x\":500,\"y\":500}"))>>),
      Message(NoneC,
              <<Call("delete_everything", ArgNone),
                Call("take_screenshot", ArgNone)>>),
      Message(NoneC, << >>),
      Message(TextC(<< >>), << >>),
      Message(TextC(<<"done">>), << >>) }

\* The assistant turn of response r to the request of iteration k; the
\* endpoint names the i-th call of that response <<k, i>>.
Assistant(r, k) ==
    AssistantTurn(r.content,
                  [i \in 1..Len(r.calls) |->
                     [id |-> <<k, i>>, name |-> r.calls[i].name,
                      arguments |-> r.calls[i].arguments]])

(* --------------------------- run_agent -------------------------------- *)
DumpStarts == {9998}

Init ==
    /\ max_steps \in 0..MaxSteps
    /\ keep_last \in 0..MaxKeep
    /\ dump_start \in DumpStarts
    /\ messages = <<Turn("system", TextC(<<"system prompt">>)),
                    Turn("user", TextC(<<"task prompt">>))>>
    /\ dump_idx = dump_start
    /\ last_content = << >>
    /\ step = 0
    /\ pc = "loop"
    /\ returned = << >>
    /\ files = << >>
    /\ os_calls = << >>
    /\ sent = << >>

\* Line 243: another iteration of `for _ in range(max_steps)`.
LoopContinues == step < max_steps

\* RecordContent keeping an empty string out of last_content.
RecordNonEmptyContent(msg) ==
    IF IsStr(msg.content) /\ msg.content.text # << >> THEN msg.content.text
    ELSE last_content

\* Lines 260-261.
RecordContent(msg) ==
    IF IsStr(msg.content) THEN msg.content.text ELSE last_content

\* ExtraReplies tagging every reply with the id of the call that is honoured.
ExtraRepliesFirstId(tool_calls) ==
    [i \in 1..(Len(tool_calls) - 1) |->
        ToolTurn(tool_calls[1].id, tool_calls[i + 1].name,
                 _err_payload("too_many_tool_calls",
                              <<"only one tool call per response allowed">>))]

\* ExtraReplies answering the last extra call first.
ExtraRepliesReversed(tool_calls) ==
    [i \in 1..(Len(tool_calls) - 1) |->
        ToolTurn(tool_calls[Len(tool_calls) + 1 - i].id,
                 tool_calls[Len(tool_calls) + 1 - i].name,
                 _err_payload("too_many_tool_calls",
                              <<"only one tool call per response allowed">>))]

\* Lines 267-279: one reply per call after the first.
ExtraReplies(tool_calls) ==
    [i \in 1..(Len(tool_calls) - 1) |->
        ToolTurn(tool_calls[i + 1].id, tool_calls[i + 1].name,
                 _err_payload("too_many_tool_calls",
                              <<"only one tool call per response allowed">>))]

\* Lines 258 and 267-279: the conversation when the first call is dispatched.
AfterExtras(msg) == Append(messages, msg) \o ExtraReplies(msg.tool_calls)

\* The index left as it is after a capture.
SameDumpIdx == dump_idx

\* Line 291.
NextDumpIdx == dump_idx + 1

\* A capture answered by its tool turn alone.
ScreenshotTurnsNoImage(call_id, name, fn, png) ==
    << ToolTurn(call_id, name, _ok_payload_extra(fn, 1920, 1080)) >>

\* Lines 294-310: the tool turn and the image turn of a capture.
ScreenshotTurns(call_id, name, fn, png) ==
    << ToolTurn(call_id, name, _ok_payload_extra(fn, 1920, 1080)),
       Turn("user", ListC(<<TextPart(<<"captured image data">>),
                            ImagePart(png)>>)) >>

\* A winapi primitive invoked in iteration k for call id.
Prim(k, prim, id, x, y, text) ==
    [step |-> k, prim |-> prim, call_id |-> id, x |-> x, y |-> y,
     text |-> text]

\* Lines 244-261: the request is sent and the content of the response is
\* recorded (each action appends the assistant turn with its own turns).
Iteration(msg) ==
    /\ step' = step + 1
    /\ sent' = messages
    /\ last_content' = RecordContent(msg)
    /\ UNCHANGED <<max_steps, keep_last, dump_start>>

\* A failed request that leaves the loop running.
RequestRetried ==
    /\ pc = "loop"
    /\ LoopContinues
    /\ step' = step + 1
    /\ sent' = messages
    /\ UNCHANGED <<pc, messages, dump_idx, last_content, returned, files,
                   os_calls, max_steps, keep_last, dump_start>>

\* Lines 244-257: _post_json raises (transport, timeout) or the response
\* has no choices[0].message; nothing catches it.
RequestFails ==
    /\ pc = "loop"
    /\ LoopContinues
    /\ step' = step + 1
    /\ sent' = messages
    /\ pc' = "failed"
    /\ UNCHANGED <<messages, dump_idx, last_content, returned, files,
                   os_calls, max_steps, keep_last, dump_start>>

\* FinalAnswer without its return: the loop goes on.
FinalAnswerGoesOn ==
    /\ pc = "loop"
    /\ LoopContinues
    /\ \E r \in Responses :
        LET msg == Assistant(r, step + 1) IN
        /\ msg.tool_calls = << >>
        /\ Iteration(msg)
        /\ messages' = Append(messages, msg)
        /\ UNCHANGED <<pc, returned, dump_idx, files, os_calls>>

\* Lines 263-265: a response without tool calls ends the run.
FinalAnswer ==
    /\ pc = "loop"
    /\ LoopContinues
    /\ \E r \in Responses :
        LET msg == Assistant(r, step + 1) IN
        /\ msg.tool_calls = << >>
        /\ Iteration(msg)
        /\ messages' = Append(messages, msg)
        /\ pc' = "done"
        /\ returned' = last_content'
        /\ UNCHANGED <<dump_idx, files, os_calls>>

\* The take_screenshot branch without its call of the pruner (line 311).
TakeScreenshotNoPrune ==
    /\ pc = "loop"
    /\ LoopContinues
    /\ \E r \in Responses :
        LET msg == Assistant(r, step + 1) IN
        /\ msg.tool_calls # << >>
        /\ msg.tool_calls[1].name = "take_screenshot"
        /\ Iteration(msg)
        /\ LET tc == msg.tool_calls[1]
               fn == FileName(dump_idx)
               png == Len(files) + 1
           IN  /\ os_calls' = Append(os_calls,
                      Prim(step + 1, "capture_screenshot_png", tc.id,
                           NoFloat, NoFloat, << >>))
               /\ files' = Append(files, [step |-> step + 1, name |-> fn])
               /\ dump_idx' = NextDumpIdx
               /\ messages' = AfterExtras(msg) \o
                                  ScreenshotTurns(tc.id, tc.name, fn, png)
        /\ UNCHANGED <<pc, returned>>

\* Lines 286-311.
TakeScreenshot ==
    /\ pc = "loop"
    /\ LoopContinues
    /\ \E r \in Responses :
        LET msg == Assistant(r, step + 1) IN
        /\ msg.tool_calls # << >>
        /\ msg.tool_calls[1].name = "take_screenshot"
        /\ Iteration(msg)
        /\ LET tc == msg.tool_calls[1]
               fn == FileName(dump_idx)
               png == Len(files) + 1
           IN  /\ os_calls' = Append(os_calls,
                      Prim(step + 1, "capture_screenshot_png", tc.id,
                           NoFloat, NoFloat, << >>))
               /\ files' = Append(files, [step |-> step + 1, name |-> fn])
               /\ dump_idx' = NextDumpIdx
               /\ messages' = _prune_old_screenshots(
                      AfterExtras(msg) \o
                          ScreenshotTurns(tc.id, tc.name, fn, png),
                      keep_last)
        /\ UNCHANGED <<pc, returned>>

\* Lines 313-322.  An exception of _parse_xy that is not caught ends the run.
MoveMouse ==
    /\ pc = "loop"
    /\ LoopContinues
    /\ \E r \in Responses :
        LET msg == Assistant(r, step + 1) IN
        /\ msg.tool_calls # << >>
        /\ msg.tool_calls[1].name = "move_mouse"
        /\ Iteration(msg)
        /\ LET tc == msg.tool_calls[1]
               p == _parse_xy(tc.arguments)
           IN  IF p.raised # ""
               THEN /\ messages' = AfterExtras(msg)
                    /\ pc' = "failed"
                    /\ UNCHANGED os_calls
               ELSE IF p.err # NoneC
               THEN /\ messages' = Append(AfterExtras(msg),
                                          ToolTurn(tc.id, tc.name, p.err))
                    /\ UNCHANGED <<pc, os_calls>>
               ELSE /\ os_calls' = Append(os_calls,
                           Prim(step + 1, "move_mouse_norm", tc.id, p.x, p.y,
                                << >>))
                    /\ messages' = Append(AfterExtras(msg),
                                          ToolTurn(tc.id, tc.name, _ok_payload))
                    /\ UNCHANGED pc
        /\ UNCHANGED <<dump_idx, returned, files>>

\* Lines 324-333 and 346-355: a tool without parameters.
NoArgTool(name, prim) ==
    /\ pc = "loop"
    /\ LoopContinues
    /\ \E r \in Responses :
        LET msg == Assistant(r, step + 1) IN
        /\ msg.tool_calls # << >>
        /\ msg.tool_calls[1].name = name
        /\ Iteration(msg)
        /\ LET tc == msg.tool_calls[1]
               p == _parse_args(tc.arguments)
           IN  IF p.err # NoneC
               THEN /\ messages' = Append(AfterExtras(msg),
                                          ToolTurn(tc.id, tc.name, p.err))
                    /\ UNCHANGED os_calls
               ELSE /\ os_calls' = Append(os_calls,
                           Prim(step + 1, prim, tc.id, NoFloat, NoFloat, << >>))
                    /\ messages' = Append(AfterExtras(msg),
                                          ToolTurn(tc.id, tc.name, _ok_payload))
        /\ UNCHANGED <<pc, dump_idx, returned, files>>

ClickMouse == NoArgTool("click_mouse", "click_mouse")

ScrollDown == NoArgTool("scroll_down", "scroll_down")

\* Lines 335-344.
TypeText ==
    /\ pc = "loop"
    /\ LoopContinues
    /\ \E r \in Responses :
        LET msg == Assistant(r, step + 1) IN
        /\ msg.tool_calls # << >>
        /\ msg.tool_calls[1].name = "type_text"
        /\ Iteration(msg)
        /\ LET tc == msg.tool_calls[1]
               p == _parse_text(tc.arguments)
           IN  IF p.err # NoneC
               THEN /\ messages' = Append(AfterExtras(msg),
                                          ToolTurn(tc.id, tc.name, p.err))
                    /\ UNCHANGED os_calls
               ELSE /\ os_calls' = Append(os_calls,
                           Prim(step + 1, "type_text", tc.id, NoFloat, NoFloat,
                                p.text))
                    /\ messages' = Append(AfterExtras(msg),
                                          ToolTurn(tc.id, tc.name, _ok_payload))
        /\ UNCHANGED <<pc, dump_idx, returned, files>>

KnownTools ==
    {"take_screenshot", "move_mouse", "click_mouse", "type_text", "scroll_down"}

\* Lines 357-365.
UnknownTool ==
    /\ pc = "loop"
    /\ LoopContinues
    /\ \E r \in Responses :
        LET msg == Assistant(r, step + 1) IN
        /\ msg.tool_calls # << >>
        /\ msg.tool_calls[1].name \notin KnownTools
        /\ Iteration(msg)
        /\ LET tc == msg.tool_calls[1]
           IN  messages' = Append(AfterExtras(msg),
                                  ToolTurn(tc.id, tc.name,
                                           _err_payload("unknown_tool",
                                                        Tok(tc.name))))
        /\ UNCHANGED <<pc, dump_idx, returned, files, os_calls>>

\* Lines 243 and 369: the step budget is used up.
LoopExit ==
    /\ pc = "loop"
    /\ ~LoopContinues
    /\ pc' = "done"
    /\ returned' = last_content
    /\ UNCHANGED <<messages, dump_idx, last_content, step, files, os_calls,
                   sent, max_steps, keep_last, dump_start>>

Next ==
    \/ RequestFails
    \/ FinalAnswer
    \/ TakeScreenshot
    \/ MoveMouse
    \/ ClickMouse
    \/ TypeText
    \/ ScrollDown
    \/ UnknownTool
    \/ LoopExit

Spec == Init /\ [][Next]_vars

(* --------------------------- the pruner alone ------------------------- *)
\* Turns a conversation may hold, by kind; position i names the capture.
TurnKinds ==
    {"user_image", "user_text_list", "user_text", "assistant_image",
     "tool_ok_file", "tool_ok", "tool_error", "tool_text"}

TurnOfKind(k, i) ==
    CASE k = "user_image" ->
           Turn("user", ListC(<<TextPart(<<"captured image data">>),
                                ImagePart(i)>>))
      [] k = "user_text_list" ->
           Turn("user", ListC(<<TextPart(<<"captured image data">>)>>))
      [] k = "user_text" -> Turn("user", TextC(<<"task prompt">>))
      [] k = "assistant_image" ->
           Turn("assistant", ListC(<<ImagePart(i)>>))
      [] k = "tool_ok_file" ->
           ToolTurn(<<i, 1>>, "take_screenshot",
                    _ok_payload_extra(FileName(i), 1920, 1080))
      [] k = "tool_ok" -> ToolTurn(<<i, 1>>, "click_mouse", _ok_payload)
      [] k = "tool_error" ->
           ToolTurn(<<i, 1>>, "move_mouse",
                    _err_payload("invalid_arguments", <<"missing x or y">>))
      [] k = "tool_text" ->
           ToolTurn(<<i, 1>>, "take_screenshot", TextC(<<"not json">>))

Conversation(ks) == [i \in 1..Len(ks) |-> TurnOfKind(ks[i], i)]

InitPrune ==
    /\ \E n \in 0..MaxTurns : \E ks \in [1..n -> TurnKinds] :
           messages = Conversation(ks)
    /\ keep_last \in 0..MaxKeep + 1
    /\ pc = "prune_in"
    /\ sent = << >>
    /\ max_steps = 0
    /\ dump_start = 0
    /\ dump_idx = 0
    /\ last_content = << >>
    /\ step = 0
    /\ returned = << >>
    /\ files = << >>
    /\ os_calls = << >>

\* messages = _prune_old_screenshots(messages, keep_last)
Prune ==
    /\ pc = "prune_in"
    /\ sent' = messages
    /\ messages' = _prune_old_screenshots(messages, keep_last)
    /\ pc' = "prune_out"
    /\ UNCHANGED <<dump_idx, last_content, step, returned, files, os_calls,
                   max_steps, keep_last, dump_start>>

\* ... and once more on the result, with the same keep_last.
PruneAgain ==
    /\ pc = "prune_out"
    /\ sent' = messages
    /\ messages' = _prune_old_screenshots(messages, keep_last)
    /\ pc' = "prune_again"
    /\ UNCHANGED <<dump_idx, last_content, step, returned, files, os_calls,
                   max_steps, keep_last, dump_start>>

NextPrune == Prune \/ PruneAgain

SpecPrune == InitPrune /\ [][NextPrune]_vars

(* --------------------------- the parsers alone ------------------------ *)
\* Raw `arguments` of a tool call: absent, no str, the empty str, and the
\* JSON texts of ArgJSON.
RawArguments ==
    {ArgNone, ArgOther, ArgStr("")} \cup
    {ArgStr(s) : s \in
        {"not json", "[1,2]", "{}", "{\"x\":500,\"y\":500}",
         "{\"x\":-5,\"y\":1500}", "{\"x\":1000,\"y\":0}", "{\"x\":5}",
         "{\"x\":\"abc\",\"y\":1}", "{\"x\":\"7\",\"y\":true}",
         "{\"x\":1,\"y\":null}", "{\"x\":NaN,\"y\":1}", BigXText,
         "{\"x\":1001,\"y\":-1}",
         "{\"text\":\"h\\u00e9llo\"}", "{\"text\":\"\\u00e9\\u4e2d\"}",
         "{\"text\":\"hi\"}", "{\"text\":null}", "{\"text\":5}",
         "{\"text\":true}", "{\"text\":\"\"}",
         "{\"text\":\"a\\u00e9b\\u4e2dc\"}", "{\"text\":-12}",
         "{\"text\":\"~\\u007f\\u0080\"}"}}

\* The argument is kept in `sent`, the value returned in `returned`.
InitParse ==
    /\ sent \in RawArguments
    /\ pc = "parse_in"
    /\ returned = << >>
    /\ messages = << >>
    /\ keep_last = 0
    /\ max_steps = 0
    /\ dump_start = 0
    /\ dump_idx = 0
    /\ last_content = << >>
    /\ step = 0
    /\ files = << >>
    /\ os_calls = << >>

Parsed(label, result) ==
    /\ pc = "parse_in"
    /\ pc' = label
    /\ returned' = result
    /\ UNCHANGED <<messages, dump_idx, last_content, step, files, os_calls,
                   sent, max_steps, keep_last, dump_start>>

ParseArgs == Parsed("parse_args_out", _parse_args(sent))

ParseXY == Parsed("parse_xy_out", _parse_xy(sent))

ParseText == Parsed("parse_text_out", _parse_text(sent))

NextParse == ParseArgs \/ ParseXY \/ ParseText

SpecParse == InitParse /\ [][NextParse]_vars

(* --------------------------- the latest iteration --------------------- *)
Running == pc \in {"loop", "done", "failed"}

\* The latest request was answered: its assistant turn is messages[Len(sent) + 1].
Answered == Running /\ step >= 1 /\ Len(messages) > Len(sent)

LastMsg == messages[Len(sent) + 1]

\* The turns the latest iteration appended after the assistant turn.
Replies == (Len(sent) + 2)..Len(messages)

RepliesTo(id) ==
    {j \in Replies : messages[j].role = "tool" /\ messages[j].tool_call_id = id}

PrimsOfStep(k) == {i \in DOMAIN os_calls : os_calls[i].step = k}

FilesOfStep(k) == {i \in DOMAIN files : files[i].step = k}

(* --------------------------- claims ----------------------------------- *)
\* C1: when a response carries n >= 2 tool calls, at most one OS primitive
\* runs in that step and it runs for the first call; each of the calls 2..n
\* is answered by exactly one tool turn, tagged with that call's own id,
\* holding a too_many_tool_calls error envelope; no OS primitive ever runs
\* for a call that is not the first of its response.
C1_OnlyFirstCallDispatched ==
    /\ \A i \in DOMAIN os_calls : Running => os_calls[i].call_id[2] = 1
    /\ (Answered /\ Len(LastMsg.tool_calls) >= 2) =>
          LET calls == LastMsg.tool_calls IN
          /\ Cardinality(PrimsOfStep(step)) <= 1
          /\ \A i \in PrimsOfStep(step) : os_calls[i].call_id = calls[1].id
          /\ \A i \in 2..Len(calls) :
                /\ Cardinality(RepliesTo(calls[i].id)) = 1
                /\ \A j \in RepliesTo(calls[i].id) :
                      /\ IsErr(messages[j].content, "too_many_tool_calls")
                      /\ messages[j].name = calls[i].name

\* C1 witness: a response with three calls, of which one was executed.
C1_Witness ==
    /\ Answered
    /\ Len(LastMsg.tool_calls) = 3
    /\ Cardinality(PrimsOfStep(step)) = 1
    /\ Cardinality({j \in Replies :
                      IsErr(messages[j].content, "too_many_tool_calls")}) = 2

\* C2: the message list of every request holds at most keep_last user
\* turns with an image part, for every keep_last >= 0.
C2_SentImagesBounded ==
    Running => Len(ImageIdxs(sent)) <= keep_last

\* C3: with n image turns, the pruner changes nothing when n <= keep_last;
\* otherwise it rewrites to a text stub exactly the n - keep_last oldest
\* image turns, the keep_last most recent ones keep their image, and every
\* other turn is left as it was.
C3_PrunesAllButKeepLast ==
    pc = "prune_out" =>
        LET idxs == ImageIdxs(sent)
            n == Len(idxs)
            old == {idxs[k] : k \in 1..(n - keep_last)}
        IN  /\ Len(messages) = Len(sent)
            /\ n <= keep_last => messages = sent
            /\ n > keep_last =>
                  \A i \in 1..Len(sent) :
                      IF i \in old
                      THEN /\ messages[i].role = "user"
                           /\ messages[i].content.kind = "text"
                           /\ SubSeq(messages[i].content.text, 1, 1) =
                                  <<"captured image data">>
                      ELSE messages[i] = sent[i]

\* What the claims call malformed arguments, read off the raw arguments:
\* not a string, no JSON, or JSON that is no object.
NotAnObject(arg) ==
    \/ arg.ty = "other"
    \/ /\ arg.ty = "str"
       /\ arg.s # ""
       /\ (ArgJSON(arg.s).exc # "" \/ ~ArgJSON(arg.s).isdict)

ArgObject(arg) ==
    IF arg.ty = "str" /\ arg.s # "" THEN ArgJSON(arg.s)
    ELSE Dict({}, JNull, JNull, JNull)

NonNumeric(v) == v.t = "null" \/ (v.t = "str" /\ ~IsDecimal(v.cp))

\* ... and for move_mouse also a missing or non-numeric x or y.
BadArguments(name, arg) ==
    \/ NotAnObject(arg)
    \/ /\ name = "move_mouse"
       /\ \/ {"x", "y"} \ ArgObject(arg).keys # {}
          \/ NonNumeric(ArgObject(arg).x)
          \/ NonNumeric(ArgObject(arg).y)

\* C4: a step whose chosen call names an unknown tool, or carries malformed,
\* missing or wrong-typed arguments, or that comes with extra calls, appends
\* the matching error envelope (unknown_tool, invalid_arguments,
\* too_many_tool_calls) and does not end the run; with steps left in the
\* budget the next request can be issued.
C4_ErrorsAreLocal ==
    (Answered /\ LastMsg.tool_calls # << >>) =>
        LET calls == LastMsg.tool_calls
            tc == calls[1]
            unknown == tc.name \notin KnownTools
            bad == ~unknown /\ BadArguments(tc.name, tc.arguments)
        IN  /\ unknown =>
                  \E j \in RepliesTo(tc.id) :
                      IsErr(messages[j].content, "unknown_tool")
            /\ bad =>
                  \E j \in RepliesTo(tc.id) :
                      IsErr(messages[j].content, "invalid_arguments")
            /\ \A i \in 2..Len(calls) :
                  \E j \in RepliesTo(calls[i].id) :
                      IsErr(messages[j].content, "too_many_tool_calls")
            /\ (unknown \/ bad \/ Len(calls) >= 2) =>
                  /\ pc # "failed"
                  /\ (pc = "done" => step = max_steps)
                  /\ (pc = "loop" /\ step < max_steps) => ENABLED TakeScreenshot

\* The parser of each known tool (take_screenshot has no parameters, as
\* click_mouse and scroll_down).
ParseError(name, arg) ==
    CASE name = "move_mouse" -> _parse_xy(arg).err
      [] name = "type_text" -> _parse_text(arg).err
      [] OTHER -> _parse_args(arg).err

\* C5: when the arguments of the chosen call of a known tool fail argument
\* parsing, the step invokes no OS primitive, writes no file, and the tool
\* turn for the call holds the invalid_arguments error envelope.
C5_ParseErrorShortCircuits ==
    (/\ Answered
     /\ LastMsg.tool_calls # << >>
     /\ LastMsg.tool_calls[1].name \in KnownTools
     /\ ParseError(LastMsg.tool_calls[1].name,
                   LastMsg.tool_calls[1].arguments) # NoneC) =>
        /\ PrimsOfStep(step) = {}
        /\ FilesOfStep(step) = {}
        /\ \A j \in RepliesTo(LastMsg.tool_calls[1].id) :
              IsErr(messages[j].content, "invalid_arguments")
        /\ Cardinality(RepliesTo(LastMsg.tool_calls[1].id)) = 1

\* The assistant turns of the conversation, oldest first.
AssistantIdxs ==
    LET IsAssistant(i) == messages[i].role = "assistant"
    IN  SelectSeq([i \in 1..Len(messages) |-> i], IsAssistant)

StrTurns ==
    {i \in DOMAIN messages :
        messages[i].role = "assistant" /\ IsStr(messages[i].content)}

NonEmptyTurns == {i \in StrTurns : messages[i].content.text # << >>}

Latest(S) == CHOOSE m \in S : \A i \in S : i <= m

TextOfLatest(S) ==
    IF S = {} THEN << >> ELSE messages[Latest(S)].content.text

\* C6 as stated: the text returned is the content of the most recent
\* assistant turn with non-empty text content, or "" when there is none.
C6_ReturnsLastNonEmptyText ==
    pc = "done" => returned = TextOfLatest(NonEmptyTurns)

\* C6 as amended: the candidate answer is the content of the most recent
\* assistant turn whose content is a string, the empty string included (a
\* turn without content does not replace it), or "" when there is none; the
\* text returned is that candidate.
C6_ReturnsLastStringContent ==
    /\ Running => last_content = TextOfLatest(StrTurns)
    /\ pc = "done" => returned = TextOfLatest(StrTurns)

\* C6 witness: an empty content replaced an earlier non-empty answer, and a
\* later turn without content left it in place.
C6_Witness ==
    /\ pc = "done"
    /\ returned = << >>
    /\ NonEmptyTurns # {}
    /\ \E i \in DOMAIN messages :
          /\ messages[i].role = "assistant"
          /\ messages[i].content = NoneC
          /\ StrTurns # {}
          /\ i > Latest(StrTurns)

\* C7: at most max_steps requests are issued (none when max_steps = 0), a
\* run that is not over can go on, and when max_steps responses in a row
\* all carried tool calls the loop ends after the last of these steps and
\* returns the recorded text.
C7_BudgetBoundsRun ==
    Running =>
        /\ step <= max_steps
        /\ pc = "loop" => ENABLED Next
        /\ (/\ Len(AssistantIdxs) = max_steps
            /\ \A k \in 1..max_steps :
                  messages[AssistantIdxs[k]].tool_calls # << >>) =>
              \/ pc = "loop" /\ step = max_steps /\ ENABLED LoopExit
              \/ pc = "done" /\ step = max_steps /\ returned = last_content

\* C8: when the k-th response is the first without tool calls, the run is
\* over after exactly k requests; that step invoked no OS primitive, wrote
\* no file and appended nothing after the assistant turn; the text recorded
\* is returned and nothing happens afterwards.
C8_FirstPlainResponseEndsRun ==
    Running =>
        \A k \in 1..Len(AssistantIdxs) :
            (/\ messages[AssistantIdxs[k]].tool_calls = << >>
             /\ \A j \in 1..(k - 1) :
                   messages[AssistantIdxs[j]].tool_calls # << >>) =>
                /\ pc = "done"
                /\ step = k
                /\ k <= max_steps
                /\ Len(AssistantIdxs) = k
                /\ AssistantIdxs[k] = Len(messages)
                /\ PrimsOfStep(k) = {} /\ FilesOfStep(k) = {}
                /\ \A i \in DOMAIN os_calls : os_calls[i].step < k
                /\ \A i \in DOMAIN files : files[i].step < k
                /\ returned = last_content
                /\ ~ENABLED Next

\* C8 witness: take_screenshot, then move_mouse to (500, 500), then "done".
C8_Witness ==
    /\ pc = "done"
    /\ step = 3
    /\ returned = <<"done">>
    /\ Len(files) = 1
    /\ Len(os_calls) = 2
    /\ os_calls[1].prim = "capture_screenshot_png"
    /\ os_calls[2].prim = "move_mouse_norm"
    /\ os_calls[2].x.v = 500 /\ os_calls[2].y.v = 500
    /\ messages[Len(messages)].role = "assistant"

Captures ==
    {i \in DOMAIN os_calls : os_calls[i].prim = "capture_screenshot_png"}

\* C10: the dump index is dump_start plus the number of captures executed;
\* the j-th capture is written to the file of index dump_start + j - 1; as
\* many files are written as captures are executed, and no two writes of a
\* run go to the same file.
C10_DumpIndexCountsCaptures ==
    Running =>
        /\ dump_idx = dump_start + Cardinality(Captures)
        /\ Len(files) = Cardinality(Captures)
        /\ \A j \in DOMAIN files :
              files[j].name = FileName(dump_start + j - 1)
        /\ \A i, j \in DOMAIN files :
              i # j => files[i].name # files[j].name

\* C10 witness: three captures in one run.
C10_Witness ==
    /\ Running
    /\ Len(files) = 3
    /\ dump_idx = dump_start + 3

\* A turn the pruner has rewritten: a user turn whose content is the stub text.
IsStub(m) ==
    /\ m.role = "user"
    /\ m.content.kind = "text"
    /\ SubSeq(m.content.text, 1, 1) = <<"captured image data">>

ErrTurns ==
    {j \in DOMAIN messages :
        /\ messages[j].role = "tool"
        /\ messages[j].content.kind = "json"
        /\ ~messages[j].content.doc.ok}

\* C12: every envelope with ok = false that was appended to the conversation
\* has an error type among invalid_arguments, too_many_tool_calls and
\* unknown_tool, and a message that is not the empty string, whatever the
\* tool name and the arguments of the call were.
C12_ErrorsCarryTypeAndMessage ==
    Running =>
        \A j \in ErrTurns :
            /\ messages[j].content.doc.etype \in
                   {"invalid_arguments", "too_many_tool_calls", "unknown_tool"}
            /\ messages[j].content.doc.emsg # << >>
            /\ \A k \in DOMAIN messages[j].content.doc.emsg :
                   messages[j].content.doc.emsg[k] # ""

\* C13: every step issues one request, carrying the conversation as it is;
\* a request that fails (no assistant turn is appended) ends the run in
\* failure in that very step, which invokes no OS primitive, writes no file
\* and appends no turn; after a failure nothing happens any more: no request,
\* no primitive, no file, no turn.
C13_RequestFailureIsFatal ==
    /\ [](pc = "failed" => ~ENABLED Next)
    /\ [][/\ pc # "failed"
          /\ step' \in {step, step + 1}
          /\ step' = step + 1 => sent' = messages
          /\ (step' = step + 1 /\ Len(messages') = Len(messages)) =>
                /\ pc' = "failed"
                /\ UNCHANGED <<messages, os_calls, files, dump_idx,
                               last_content, returned>>]_vars

\* C13 witness: the third request failed, after two steps that each invoked
\* a primitive.
C13_Witness ==
    /\ pc = "failed"
    /\ step = 3
    /\ messages = sent
    /\ Len(os_calls) = 2
    /\ messages[Len(messages)].role = "tool"

InRange(f) == ~f.nan /\ 0 <= f.v /\ f.v <= 1000

\* The clamping law on a number v: below 0 gives 0, above 1000 gives 1000,
\* a value in range is returned as it is.
Clamped(v) == IF v < 0 THEN 0 ELSE IF v > 1000 THEN 1000 ELSE v

\* C14: when _parse_xy returns no error for the arguments of a move_mouse
\* call, the x and y it returns lie in [0, 1000] and follow the clamping
\* law; and every invocation of move_mouse_norm has both coordinates in
\* [0, 1000].
C14_CoordinatesClamped ==
    /\ (/\ Answered
        /\ LastMsg.tool_calls # << >>
        /\ LastMsg.tool_calls[1].name = "move_mouse"
        /\ _parse_xy(LastMsg.tool_calls[1].arguments).raised = ""
        /\ _parse_xy(LastMsg.tool_calls[1].arguments).err = NoneC) =>
           LET a == ArgObject(LastMsg.tool_calls[1].arguments)
               p == _parse_xy(LastMsg.tool_calls[1].arguments)
           IN  /\ InRange(p.x) /\ InRange(p.y)
               /\ a.x.t = "int" => p.x.v = Clamped(a.x.n)
               /\ a.y.t = "int" => p.y.v = Clamped(a.y.n)
    /\ Running =>
           \A i \in DOMAIN os_calls :
               os_calls[i].prim = "move_mouse_norm" =>
                   InRange(os_calls[i].x) /\ InRange(os_calls[i].y)

\* C15: _parse_args returns the empty object and no error for an absent
\* argument and for the empty string; an invalid_arguments error and no
\* object for an argument that is no string, no valid JSON, or JSON that is
\* no object; the decoded object and no error otherwise.
C15_ParseArgsContract ==
    pc = "parse_args_out" =>
        IF sent.ty = "none" \/ (sent.ty = "str" /\ sent.s = "")
        THEN /\ returned.err = NoneC
             /\ returned.val.isdict /\ returned.val.keys = {}
        ELSE IF NotAnObject(sent)
        THEN /\ IsErr(returned.err, "invalid_arguments")
             /\ ~returned.val.isdict
        ELSE /\ returned.err = NoneC
             /\ returned.val = ArgJSON(sent.s)
             /\ returned.val.isdict

\* C15 witness: the empty string parsed to the empty object.
C15_Witness ==
    /\ pc = "parse_args_out"
    /\ sent = ArgStr("")
    /\ returned.err = NoneC
    /\ returned.val.isdict

\* The positions of cp holding an ASCII character, in order.
AsciiPositions(cp) ==
    LET IsAsciiAt(i) == cp[i] \in 0..127
    IN  SelectSeq([i \in 1..Len(cp) |-> i], IsAsciiAt)

\* C16: when _parse_text returns no error, its result holds characters of
\* code 0..127 only and is the string form of the input's text with the
\* non-ASCII characters taken out (none put in their place) and the others
\* in their order; a missing text key and a null text give the empty string
\* without an error.
C16_ParseTextAsciiOnly ==
    /\ (pc = "parse_text_out" /\ returned.err = NoneC) =>
           (LET a == ArgObject(sent)
                form == PyStr(a.text)
                pos == AsciiPositions(form)
            IN  /\ \A i \in DOMAIN returned.text : returned.text[i] \in 0..127
                /\ ("text" \notin a.keys \/ a.text.t = "null") =>
                       returned.text = << >>
                /\ ("text" \in a.keys /\ a.text.t # "null") =>
                       returned.text = [k \in 1..Len(pos) |-> form[pos[k]]])
    /\ (pc = "parse_text_out" /\ ~NotAnObject(sent)) => returned.err = NoneC

\* C16 witness: "a\u00e9b\u4e2dc" gave "abc".
C16_Witness ==
    /\ pc = "parse_text_out"
    /\ returned.err = NoneC
    /\ ArgObject(sent).text = JString(<<97, 233, 98, 20013, 99>>)
    /\ returned.text = <<97, 98, 99>>

\* C17: the conversation starts as the system turn and the task turn; no
\* step makes it shorter, and a step leaves every turn it finds in its
\* place and as it was, except that an image-bearing user turn may get a
\* text stub as its content, its other fields unchanged.
C17_AppendOnly ==
    /\ (/\ Len(messages) = 2
        /\ messages[1].role = "system" /\ IsStr(messages[1].content)
        /\ messages[2].role = "user" /\ IsStr(messages[2].content))
    /\ [][/\ Len(messages') >= Len(messages)
          /\ \A i \in DOMAIN messages :
                \/ messages'[i] = messages[i]
                \/ /\ HasImage(messages[i])
                   /\ IsStub(messages'[i])
                   /\ messages'[i] =
                          [messages[i] EXCEPT !.content = messages'[i].content]
         ]_vars

\* C17 witness: a finished run whose conversation holds a rewritten turn,
\* an image turn and the turns of a later step.
C17_Witness ==
    /\ pc = "done"
    /\ \E i, j, k \in DOMAIN messages :
          /\ i < j /\ j < k
          /\ IsStub(messages[i])
          /\ HasImage(messages[j])
          /\ messages[k].role = "assistant"

\* C18: at the end of every step, whichever tool was called, the
\* conversation is what the pruner makes of it with the configured
\* keep_last: pruning after the step would change nothing, so pruning in the
\* take_screenshot branch only gives the conversations that pruning after
\* every step gives.
C18_PrunedAfterEveryStep ==
    Running => messages = _prune_old_screenshots(messages, keep_last)

\* C18 witness: a click_mouse step ended on a conversation that holds a
\* rewritten turn and keep_last = 1 image turn.
C18_Witness ==
    /\ Answered
    /\ keep_last = 1
    /\ LastMsg.tool_calls # << >>
    /\ LastMsg.tool_calls[1].name = "click_mouse"
    /\ Len(ImageIdxs(messages)) = 1
    /\ \E i \in DOMAIN messages : IsStub(messages[i])

\* The user turns appended by the steps (all but the task turn), oldest
\* first: the j-th of them belongs to the j-th capture.
CaptureTurns ==
    LET IsUser(i) == i > 2 /\ messages[i].role = "user"
    IN  SelectSeq([i \in 1..Len(messages) |-> i], IsUser)

\* C19: the user turn of the j-th capture, rewritten or not, comes right
\* after the tool turn of the take_screenshot call of its step, whose ok
\* envelope names the file that capture was written to, whether or not
\* too_many_tool_calls replies were appended in that step; once rewritten its
\* content is "captured image data (omitted; file=<path>)" with the path of
\* that very file.
C19_StubNamesOwnFile ==
    Running =>
        /\ Len(CaptureTurns) = Len(files)
        /\ \A j \in DOMAIN CaptureTurns :
              LET i == CaptureTurns[j]
                  prev == messages[i - 1]
              IN  /\ HasImage(messages[i]) \/ IsStub(messages[i])
                  /\ prev.role = "tool"
                  /\ prev.name = "take_screenshot"
                  /\ prev.tool_call_id = <<files[j].step, 1>>
                  /\ prev.content.kind = "json"
                  /\ prev.content.doc.ok
                  /\ prev.content.doc.file = files[j].name
                  /\ IsStub(messages[i]) =>
                        messages[i].content.text =
                            <<"captured image data", " (omitted; file=">> \o
                            files[j].name \o <<")">>

\* C19 witness: the turn of the first capture was rewritten; its step had
\* also appended a too_many_tool_calls reply; a second capture went to
\* another file.
C19_Witness ==
    /\ Running
    /\ Len(files) = 2
    /\ files[1].name # files[2].name
    /\ IsStub(messages[CaptureTurns[1]])
    /\ HasImage(messages[CaptureTurns[2]])
    /\ IsErr(messages[CaptureTurns[1] - 2].content, "too_many_tool_calls")

\* The tool turns of the latest request that answer call id.
SentAnswers(id) ==
    {j \in DOMAIN sent : sent[j].role = "tool" /\ sent[j].tool_call_id = id}

\* The turn at position j of the latest request starts a new step, or the
\* request ends before it.
StepEndsBefore(j) == j > Len(sent) \/ sent[j].role = "assistant"

\* C20: in the conversation of every request after the first, each tool
\* call of each assistant turn is answered by exactly one tool turn, of the
\* same id and name, and every tool turn answers such a call; after an
\* assistant turn with calls 1..n come the too_many_tool_calls replies to the
\* calls 2..n in their order, then the tool turn of call 1, then the user
\* turn of the capture when call 1 is take_screenshot, and nothing else.
C20_CallsAnsweredInOrder ==
    (Running /\ step >= 2) =>
        /\ \A a \in DOMAIN sent :
              sent[a].role = "assistant" =>
                  LET calls == sent[a].tool_calls
                      n == Len(calls)
                  IN  /\ n >= 1
                      /\ a + n <= Len(sent)
                      /\ \A i \in 1..n :
                            /\ Cardinality(SentAnswers(calls[i].id)) = 1
                            /\ \A j \in SentAnswers(calls[i].id) :
                                  sent[j].name = calls[i].name
                      /\ \A i \in 2..n :
                            /\ sent[a + i - 1].role = "tool"
                            /\ sent[a + i - 1].tool_call_id = calls[i].id
                            /\ IsErr(sent[a + i - 1].content,
                                     "too_many_tool_calls")
                      /\ sent[a + n].role = "tool"
                      /\ sent[a + n].tool_call_id = calls[1].id
                      /\ IF calls[1].name = "take_screenshot"
                         THEN /\ a + n + 1 <= Len(sent)
                              /\ sent[a + n + 1].role = "user"
                              /\ StepEndsBefore(a + n + 2)
                         ELSE StepEndsBefore(a + n + 1)
        /\ \A j \in DOMAIN sent :
              sent[j].role = "tool" =>
                  \E a \in 1..(j - 1) :
                      /\ sent[a].role = "assistant"
                      /\ \E i \in DOMAIN sent[a].tool_calls :
                            sent[a].tool_calls[i].id = sent[j].tool_call_id

\* C20 witness: the third request carried a step with three calls and a
\* take_screenshot step.
C20_Witness ==
    /\ Running
    /\ step = 3
    /\ \E a, b \in DOMAIN sent :
          /\ sent[a].role = "assistant" /\ Len(sent[a].tool_calls) = 3
          /\ sent[b].role = "assistant" /\ Len(sent[b].tool_calls) = 1
          /\ sent[b].tool_calls[1].name = "take_screenshot"

====
